---- MODULE Spec2Model ----
(***************************************************************************)
(* Order workflow of danmaciel/api: the services PedidoService,            *)
(* ProdutoService and ClienteService over the GORM/SQLite repositories.    *)
(*                                                                         *)
(* The four tables are sequences of rows; a row's primary key is its       *)
(* index (integer PRIMARY KEY AUTOINCREMENT, ids are never reused).  Every *)
(* model embeds gorm.DeletedAt, so Delete is a soft delete: it sets the    *)
(* row's deleted marker and every normal read skips marked rows.  Money is *)
(* kept in integer cents.                                                  *)
(***************************************************************************)
EXTENDS Integers, Sequences, FiniteSets, TLC

\* ---------------------------------------------------------------- bounds
MaxClientes == 1
MaxProdutos == 2
MaxPedidos  == 1
MaxItens    == 2
MaxEmCurso  == 2

\* ------------------------------------------------------------ input sets
Precos      == {9999, 299999}
Estoques    == {1, 2}
Quantidades == {1, 2}
Skus        == {"SKU-A", "SKU-B"}
\* a *bool field of a request: absent, or present with a value
AtivoOpts   == {"nil", "true", "false"}

\* validate:"oneof=pendente pago enviado entregue cancelado"
StatusValidos == {"pendente", "pago", "enviado", "entregue", "cancelado"}
\* what a request may carry in its status field
StatusPedidos == StatusValidos \cup {"", "confirmado"}

\* sqlite.Open(cfg.FilePath) is opened without the _foreign_keys pragma:
\* SQLite then parses the FOREIGN KEY clauses but does not enforce them.
ForeignKeys == FALSE

VARIABLES clientes, produtos, pedidos, pedido_produtos, resp, emCurso

vars == <<clientes, produtos, pedidos, pedido_produtos, resp, emCurso>>

\* the database as one value, so that repository operations are functions
DB == [clientes |-> clientes, produtos |-> produtos,
       pedidos |-> pedidos, pedido_produtos |-> pedido_produtos]

\* -------------------------------------------------------------- errors
Nil == [kind |-> "nil", detail |-> <<>>]

Erro(kind) == [kind |-> kind, detail |-> <<>>]

ErrValidation        == "validation"
ErrClienteNaoEnc     == "cliente não encontrado"
ErrProdutoNaoEnc     == "produto não encontrado"
ErrEstoque           == "estoque insuficiente para produto"
ErrInativo           == "produto inativo"
ErrPedidoNotFound    == "pedido not found"
ErrProdutoNotFound   == "produto not found"
ErrClienteNotFound   == "cliente not found"
ErrSKU               == "SKU já cadastrado"
ErrSKUOutro          == "SKU já cadastrado em outro produto"
ErrConstraint        == "constraint failed"
Panic                == "panic: nil pointer dereference"

\* string(rune(n)), a string being the sequence of its code points: a valid
\* code point (not a surrogate, at most U+10FFFF) gives the one-character
\* string of that code point, any other value gives U+FFFD.  (The ids named
\* here are below 2^31, where the cut of the uint to a rune changes nothing.)
RuneString(n) ==
  IF n \in 0..55295 \/ n \in 57344..1114111 THEN <<n>> ELSE <<65533>>

\* the decimal digits of n, as code points ("0" is U+0030)
RECURSIVE Itoa(_)
Itoa(n) == IF n < 10 THEN <<48 + n>> ELSE Itoa(n \div 10) \o <<48 + (n % 10)>>

\* ------------------------------------------------------------ row reads
\* gorm First(&row, id) under the soft-delete scope: deleted_at IS NULL
Live(tab, id) == id \in 1..Len(tab) /\ ~tab[id].deleted

\* a nil *model.X is written as a value whose id is 0 (ids start at 1)
NilPtr == 0

NilRow == [id |-> 0]

IsNil(p) == p.id = 0

\* rows of a table that a query under the soft-delete scope returns
LiveIds(tab) == {i \in 1..Len(tab) : ~tab[i].deleted}

\* ids of a set as an ascending sequence (rows come back in primary-key order)
RECURSIVE SeqOfSet(_)
SeqOfSet(S) ==
  IF S = {} THEN <<>>
  ELSE LET m == CHOOSE x \in S : \A y \in S : x <= y
       IN <<m>> \o SeqOfSet(S \ {m})

\* ---------------------------------------------------- ClienteRepository
\* FindByID answers (nil, nil) when no live row has the id
ClienteRepoFindByID(db, id) ==
  IF Live(db.clientes, id)
  THEN [cliente |-> id, err |-> Nil]
  ELSE [cliente |-> NilPtr, err |-> Nil]

\* Create: INSERT; the unique indexes on email and cpf reject a duplicate
ClienteRepoCreate(db, duplicado) ==
  IF duplicado
  THEN [db |-> db, err |-> Erro(ErrConstraint)]
  ELSE [db |-> [db EXCEPT !.clientes = Append(@, [deleted |-> FALSE])],
        err |-> Nil]

\* Delete: UPDATE clientes SET deleted_at = now WHERE id = ? AND deleted_at IS NULL
ClienteRepoDelete(db, id) ==
  IF Live(db.clientes, id)
  THEN [db |-> [db EXCEPT !.clientes[id].deleted = TRUE], err |-> Nil]
  ELSE [db |-> db, err |-> Erro(ErrClienteNotFound)]

\* ---------------------------------------------------- ProdutoRepository
ProdutoRepoFindByIDUnscoped(db, id) ==
  IF id \in 1..Len(db.produtos)
  THEN [produto |-> [id |-> id] @@ db.produtos[id], err |-> Nil]
  ELSE [produto |-> NilRow, err |-> Erro(ErrProdutoNotFound)]

\* FindByID: First(&produto, id); gorm.ErrRecordNotFound becomes "produto not found"
ProdutoRepoFindByID(db, id) ==
  IF Live(db.produtos, id)
  THEN [produto |-> [id |-> id] @@ db.produtos[id], err |-> Nil]
  ELSE [produto |-> NilRow, err |-> Erro(ErrProdutoNotFound)]

\* FindBySKU answers (nil, nil) when no live row has the sku
ProdutoRepoFindBySKU(db, sku) ==
  LET S == {i \in LiveIds(db.produtos) : db.produtos[i].sku = sku}
  IN IF S = {} THEN [produto |-> NilRow, err |-> Nil]
     ELSE LET i == CHOOSE x \in S : \A y \in S : x <= y
          IN [produto |-> [id |-> i] @@ db.produtos[i], err |-> Nil]

\* the unique index on sku covers every row, soft-deleted ones included
SkuTaken(db, sku, exceptId) ==
  \E i \in 1..Len(db.produtos) : i # exceptId /\ db.produtos[i].sku = sku

ProdutoRepoCreateSemIndice(db, produto) ==
  [db |-> [db EXCEPT !.produtos =
             Append(@, [preco |-> produto.preco, estoque |-> produto.estoque,
                        sku |-> produto.sku,
                        ativo |-> IF produto.ativo = FALSE THEN TRUE
                                  ELSE produto.ativo,
                        deleted |-> FALSE])],
   err |-> Nil, id |-> Len(db.produtos) + 1]

\* Create: INSERT.  Ativo is a plain bool tagged default:true, so GORM
\* leaves a false (zero) value out of the INSERT and the column default
\* applies; Estoque is tagged default:0.
ProdutoRepoCreate(db, produto) ==
  IF SkuTaken(db, produto.sku, 0)
  THEN [db |-> db, err |-> Erro(ErrConstraint), id |-> 0]
  ELSE [db |-> [db EXCEPT !.produtos =
                  Append(@, [preco |-> produto.preco,
                             estoque |-> produto.estoque,
                             sku |-> produto.sku,
                             ativo |-> IF produto.ativo = FALSE THEN TRUE
                                       ELSE produto.ativo,
                             deleted |-> FALSE])],
        err |-> Nil, id |-> Len(db.produtos) + 1]

ProdutoRepoUpdateCascata(db, produto) ==
  IF produto.id \in 1..Len(db.produtos)
  THEN [db |-> [db EXCEPT
                  !.produtos[produto.id] =
                     [preco |-> produto.preco, estoque |-> produto.estoque,
                      sku |-> produto.sku, ativo |-> produto.ativo,
                      deleted |-> FALSE],
                  !.pedido_produtos =
                     [i \in 1..Len(@) |->
                        IF @[i].produto_id = produto.id
                        THEN [@[i] EXCEPT !.preco_unitario = produto.preco]
                        ELSE @[i]]],
        err |-> Nil]
  ELSE [db |-> db, err |-> Erro(ErrProdutoNotFound)]

\* Update: gorm Save.  UPDATE of every column WHERE id = ? AND deleted_at
\* IS NULL; when that touches no row Save falls back to INSERT .. ON
\* CONFLICT DO UPDATE of every column, deleted_at included, so
\* RowsAffected is never 0 for a row that exists.  (Rows are never removed
\* physically and the service looks the id up first, so the id exists.)
ProdutoRepoUpdate(db, produto) ==
  IF SkuTaken(db, produto.sku, produto.id)
  THEN [db |-> db, err |-> Erro(ErrConstraint)]
  ELSE IF produto.id \in 1..Len(db.produtos)
  THEN [db |-> [db EXCEPT !.produtos[produto.id] =
                  [preco |-> produto.preco, estoque |-> produto.estoque,
                   sku |-> produto.sku, ativo |-> produto.ativo,
                   deleted |-> FALSE]],
        err |-> Nil]
  ELSE [db |-> db, err |-> Erro(ErrProdutoNotFound)]

\* Delete: UPDATE produtos SET deleted_at = now WHERE id = ? AND deleted_at IS NULL
ProdutoRepoDelete(db, id) ==
  IF Live(db.produtos, id)
  THEN [db |-> [db EXCEPT !.produtos[id].deleted = TRUE], err |-> Nil]
  ELSE [db |-> db, err |-> Erro(ErrProdutoNotFound)]

\* ----------------------------------------------------- PedidoRepository
\* PedidoProduto.BeforeSave: the subtotal is recomputed on every persist
BeforeSave(pp) == [pp EXCEPT !.subtotal = pp.quantidade * pp.preco_unitario]

\* rows that an enforced FOREIGN KEY would have to find (soft-deleted rows
\* still exist physically)
Exists(tab, id) == id \in 1..Len(tab)

PedidoRepoCreateSemTransacao(db, pedido) ==
  LET id == Len(db.pedidos) + 1
      l1 == pedido.itens[1]
  IN [db |-> [db EXCEPT
                !.pedidos = Append(@, [cliente_id |-> pedido.cliente_id,
                                       valor_total |-> pedido.valor_total,
                                       data_pedido |-> pedido.data_pedido,
                                       status |-> pedido.status,
                                       deleted |-> FALSE]),
                !.pedido_produtos =
                   Append(@, [pedido_id |-> id, produto_id |-> l1.produto_id,
                              quantidade |-> l1.quantidade,
                              preco_unitario |-> l1.preco_unitario,
                              subtotal |-> l1.subtotal, deleted |-> FALSE])],
      err |-> IF Len(pedido.itens) > 1 THEN Erro(ErrConstraint) ELSE Nil,
      id |-> id]

PedidoRepoCreateBaixaEstoque(db, pedido) ==
  LET id == Len(db.pedidos) + 1
      l1 == pedido.itens[1]
  IN [db |-> [db EXCEPT
                !.pedidos = Append(@, [cliente_id |-> pedido.cliente_id,
                                       valor_total |-> pedido.valor_total,
                                       data_pedido |-> pedido.data_pedido,
                                       status |-> pedido.status,
                                       deleted |-> FALSE]),
                !.pedido_produtos =
                   @ \o [i \in 1..Len(pedido.itens) |->
                           [pedido_id |-> id,
                            produto_id |-> pedido.itens[i].produto_id,
                            quantidade |-> pedido.itens[i].quantidade,
                            preco_unitario |-> pedido.itens[i].preco_unitario,
                            subtotal |-> pedido.itens[i].subtotal,
                            deleted |-> FALSE]],
                !.produtos[l1.produto_id].estoque = @ - l1.quantidade],
      err |-> Nil, id |-> id]

PedidoRepoCreateComReserva(db, pedido) ==
  LET id == Len(db.pedidos) + 1
      l1 == pedido.itens[1]
      jaPedido == {i \in 1..Len(db.pedido_produtos) :
                     db.pedido_produtos[i].produto_id = l1.produto_id}
  IN IF jaPedido # {}
     THEN [db |-> db, err |-> Erro(ErrEstoque), id |-> 0]
     ELSE [db |-> [db EXCEPT
                     !.pedidos = Append(@, [cliente_id |-> pedido.cliente_id,
                                            valor_total |-> pedido.valor_total,
                                            data_pedido |-> pedido.data_pedido,
                                            status |-> pedido.status,
                                            deleted |-> FALSE]),
                     !.pedido_produtos =
                        @ \o [i \in 1..Len(pedido.itens) |->
                                [pedido_id |-> id,
                                 produto_id |-> pedido.itens[i].produto_id,
                                 quantidade |-> pedido.itens[i].quantidade,
                                 preco_unitario |-> pedido.itens[i].preco_unitario,
                                 subtotal |-> pedido.itens[i].subtotal,
                                 deleted |-> FALSE]]],
           err |-> Nil, id |-> id]

\* Create: gorm Create inside its default transaction: the pedidos row,
\* then one pedido_produtos row per item, or nothing at all
PedidoRepoCreate(db, pedido) ==
  LET id == Len(db.pedidos) + 1
      fkOk == /\ Exists(db.clientes, pedido.cliente_id)
              /\ \A i \in 1..Len(pedido.itens) :
                    Exists(db.produtos, pedido.itens[i].produto_id)
      row == [cliente_id |-> pedido.cliente_id,
              valor_total |-> pedido.valor_total,
              data_pedido |-> pedido.data_pedido,
              status |-> IF pedido.status = "" THEN "pendente"
                         ELSE pedido.status,
              deleted |-> FALSE]
      linhas == [i \in 1..Len(pedido.itens) |->
                   BeforeSave([pedido_id |-> id,
                               produto_id |-> pedido.itens[i].produto_id,
                               quantidade |-> pedido.itens[i].quantidade,
                               preco_unitario |-> pedido.itens[i].preco_unitario,
                               subtotal |-> pedido.itens[i].subtotal,
                               deleted |-> FALSE])]
  IN IF ForeignKeys /\ ~fkOk
     THEN [db |-> db, err |-> Erro(ErrConstraint), id |-> 0]
     ELSE [db |-> [db EXCEPT !.pedidos = Append(@, row),
                             !.pedido_produtos = @ \o linhas],
           err |-> Nil, id |-> id]

\* FindByID with Preload("Cliente"), Preload("Itens"), Preload("Itens.Produto"):
\* a relation whose row is missing or soft-deleted stays the zero value
PedidoRepoFindByID(db, id) ==
  IF Live(db.pedidos, id)
  THEN LET row == db.pedidos[id]
           ids == SeqOfSet({i \in LiveIds(db.pedido_produtos) :
                              db.pedido_produtos[i].pedido_id = id})
       IN [pedido |->
             [id |-> id,
              cliente_id |-> row.cliente_id,
              cliente |-> IF Live(db.clientes, row.cliente_id)
                          THEN row.cliente_id ELSE 0,
              itens |-> [k \in 1..Len(ids) |->
                           [id |-> ids[k]] @@ db.pedido_produtos[ids[k]]],
              valor_total |-> row.valor_total,
              data_pedido |-> row.data_pedido,
              status |-> row.status],
           err |-> Nil]
  ELSE [pedido |-> NilRow, err |-> Erro(ErrPedidoNotFound)]

\* the has-many upsert of Save: INSERT .. ON CONFLICT (id) DO UPDATE SET
\* pedido_id = excluded.pedido_id, one item after the other
RECURSIVE UpsertItens(_, _, _)
UpsertItens(linhas, itens, pedidoId) ==
  IF itens = <<>> THEN linhas
  ELSE UpsertItens([linhas EXCEPT ![Head(itens).id].pedido_id = pedidoId],
                   Tail(itens), pedidoId)

PedidoRepoUpdateSemWhere(db, pedido) ==
  [db |-> [db EXCEPT !.pedidos =
             [i \in 1..Len(@) |-> [@[i] EXCEPT !.status = pedido.status]]],
   err |-> Nil]

\* Update: gorm Save of the loaded aggregate.  UPDATE pedidos SET every
\* column WHERE id = ? AND deleted_at IS NULL; when that touches no row
\* Save falls back to INSERT .. ON CONFLICT DO UPDATE of every column,
\* deleted_at (NULL in the struct that was loaded) included.
PedidoRepoUpdate(db, pedido) ==
  IF Exists(db.pedidos, pedido.id)
  THEN [db |-> [db EXCEPT
                  !.pedidos[pedido.id] =
                     [cliente_id |-> pedido.cliente_id,
                      valor_total |-> pedido.valor_total,
                      data_pedido |-> pedido.data_pedido,
                      status |-> pedido.status,
                      deleted |-> FALSE],
                  !.pedido_produtos = UpsertItens(@, pedido.itens, pedido.id)],
        err |-> Nil]
  ELSE [db |-> db, err |-> Erro(ErrPedidoNotFound)]

\* Delete: UPDATE pedidos SET deleted_at = now WHERE id = ? AND deleted_at
\* IS NULL.  No DELETE statement runs, so ON DELETE CASCADE never fires and
\* the pedido_produtos rows are left as they are.
PedidoRepoDelete(db, id) ==
  IF Live(db.pedidos, id)
  THEN [db |-> [db EXCEPT !.pedidos[id].deleted = TRUE], err |-> Nil]
  ELSE [db |-> db, err |-> Erro(ErrPedidoNotFound)]

\* ------------------------------------------------------- ClienteService
\* Create: validate, then INSERT (a request is described by whether it
\* passes validation and whether its email or cpf is already stored)
ClienteServiceCreate(db, req) ==
  IF ~req.valido THEN [db |-> db, err |-> Erro(ErrValidation)]
  ELSE ClienteRepoCreate(db, req.duplicado)

\* Delete: the repository's gorm.ErrRecordNotFound becomes "cliente not found"
ClienteServiceDelete(db, id) == ClienteRepoDelete(db, id)

\* ------------------------------------------------------- ProdutoService
\* CreateProdutoRequest: preco required,gt=0; estoque gte=0; sku required
ValidaCreateProdutoRequest(req) ==
  req.preco > 0 /\ req.estoque >= 0 /\ req.sku # ""

\* UpdateProdutoRequest: preco omitempty,gt=0; estoque gte=0
ValidaUpdateProdutoRequest(req) ==
  (req.preco = 0 \/ req.preco > 0) /\ req.estoque >= 0

\* the model.Produto that Create builds: Ativo is true unless the request
\* carries the flag
ProdutoDe(req) ==
  [preco |-> req.preco, estoque |-> req.estoque, sku |-> req.sku,
   ativo |-> IF req.ativo # "nil" THEN req.ativo = "true" ELSE TRUE]

\* Create: validate, refuse a SKU that FindBySKU resolves, INSERT; id is the
\* ID of the response
ProdutoServiceCreate(db, req) ==
  IF ~ValidaCreateProdutoRequest(req)
  THEN [db |-> db, err |-> Erro(ErrValidation), id |-> 0]
  ELSE IF ~IsNil(ProdutoRepoFindBySKU(db, req.sku).produto)
  THEN [db |-> db, err |-> Erro(ErrSKU), id |-> 0]
  ELSE LET r == ProdutoRepoCreate(db, ProdutoDe(req))
       IN [db |-> r.db, err |-> r.err, id |-> r.id]

\* Update: a field is taken from the request when it is "provided"; an int
\* Estoque cannot be absent, and 0 >= 0, so the stock is always overwritten
ProdutoServiceUpdate(db, id, req) ==
  IF ~ValidaUpdateProdutoRequest(req)
  THEN [db |-> db, err |-> Erro(ErrValidation)]
  ELSE LET f == ProdutoRepoFindByID(db, id) IN
  IF f.err # Nil THEN [db |-> db, err |-> f.err]
  ELSE LET p1 == IF req.preco > 0
                 THEN [f.produto EXCEPT !.preco = req.preco] ELSE f.produto
           p2 == IF req.estoque >= 0
                 THEN [p1 EXCEPT !.estoque = req.estoque] ELSE p1
           e  == ProdutoRepoFindBySKU(db, req.sku).produto
       IN IF req.sku # "" /\ ~IsNil(e) /\ e.id # id
          THEN [db |-> db, err |-> Erro(ErrSKUOutro)]
          ELSE LET p3 == IF req.sku # "" THEN [p2 EXCEPT !.sku = req.sku]
                         ELSE p2
                   p4 == IF req.ativo # "nil"
                         THEN [p3 EXCEPT !.ativo = (req.ativo = "true")]
                         ELSE p3
               IN ProdutoRepoUpdate(db, p4)

ProdutoServiceDelete(db, id) ==
  LET f == ProdutoRepoFindByID(db, id)
  IN IF f.err # Nil THEN [db |-> db, err |-> f.err]
     ELSE ProdutoRepoDelete(db, id)

\* toResponse copies every field of the model into the response
ToResponse(produto) ==
  [id |-> produto.id, preco |-> produto.preco, estoque |-> produto.estoque,
   sku |-> produto.sku, ativo |-> produto.ativo]

\* FindByID: the response of the row the repository finds
ProdutoServiceFindByID(db, id) ==
  LET f == ProdutoRepoFindByID(db, id)
  IN IF f.err # Nil THEN [produto |-> NilRow, err |-> f.err]
     ELSE [produto |-> ToResponse(f.produto), err |-> Nil]

\* -------------------------------------------------------- PedidoService
ValidaCreatePedidoRequestSemMin(req) ==
  /\ req.cliente_id # 0
  /\ \A i \in 1..Len(req.itens) :
        req.itens[i].produto_id # 0 /\ req.itens[i].quantidade > 0
  /\ (req.status = "" \/ req.status \in StatusValidos)

\* CreatePedidoRequest: cliente_id required; itens required,min=1,dive;
\* item produto_id required, quantidade required,gt=0; status omitempty,oneof
ValidaCreatePedidoRequest(req) ==
  /\ req.cliente_id # 0
  /\ Len(req.itens) >= 1
  /\ \A i \in 1..Len(req.itens) :
        req.itens[i].produto_id # 0 /\ req.itens[i].quantidade > 0
  /\ (req.status = "" \/ req.status \in StatusValidos)

\* validator.ValidationErrors, read as the names of the fields that failed, in
\* struct order, each name once; the items are dived into only when the list
\* itself passes required,min=1
CamposItens(itens) ==
  (IF \E i \in 1..Len(itens) : itens[i].produto_id = 0
   THEN <<"ProdutoID">> ELSE <<>>)
  \o (IF \E i \in 1..Len(itens) : itens[i].quantidade <= 0
      THEN <<"Quantidade">> ELSE <<>>)

CamposCreatePedidoRequest(req) ==
  (IF req.cliente_id = 0 THEN <<"ClienteID">> ELSE <<>>)
  \o (IF Len(req.itens) < 1 THEN <<"Itens">> ELSE CamposItens(req.itens))
  \o (IF req.status # "" /\ req.status \notin StatusValidos
      THEN <<"Status">> ELSE <<>>)

ValidaUpdatePedidoRequestSemOneof(req) == req.status # ""

ValidaUpdatePedidoRequestSemRequired(req) ==
  req.status = "" \/ req.status \in StatusValidos

\* UpdatePedidoRequest: status required,oneof
ValidaUpdatePedidoRequest(req) ==
  req.status # "" /\ req.status \in StatusValidos

SubtotalSemQuantidade(quantidade, preco) == preco

\* subtotal := float64(itemReq.Quantidade) * produto.Preco
Subtotal(quantidade, preco) == quantidade * preco

VerificarProdutoAtivoPrimeiro(produto, itemReq) ==
  IF ~produto.ativo THEN Erro(ErrInativo)
  ELSE IF produto.estoque < itemReq.quantidade THEN Erro(ErrEstoque)
  ELSE Nil

VerificarProdutoSoEstoque(produto, itemReq) ==
  IF produto.estoque < itemReq.quantidade THEN Erro(ErrEstoque) ELSE Nil

\* the checks made on one line once its product is loaded: stock, then active
VerificarProduto(produto, itemReq) ==
  IF produto.estoque < itemReq.quantidade THEN Erro(ErrEstoque)
  ELSE IF ~produto.ativo THEN Erro(ErrInativo)
  ELSE Nil

RECURSIVE PrepararItensComSaldo(_, _, _, _)
PrepararItensComSaldo(db, reqItens, itens, valorTotal) ==
  IF reqItens = <<>>
  THEN [err |-> Nil, itens |-> itens, valor_total |-> valorTotal,
        buscas |-> <<>>]
  ELSE LET itemReq == Head(reqItens)
           f == ProdutoRepoFindByID(db, itemReq.produto_id)
       IN IF f.err # Nil
          THEN [err |-> [kind |-> ErrProdutoNaoEnc,
                         detail |-> RuneString(itemReq.produto_id)],
                itens |-> itens, valor_total |-> valorTotal,
                buscas |-> <<itemReq.produto_id>>]
          ELSE IF VerificarProduto(f.produto, itemReq) # Nil
          THEN [err |-> VerificarProduto(f.produto, itemReq),
                itens |-> itens, valor_total |-> valorTotal,
                buscas |-> <<itemReq.produto_id>>]
          ELSE LET subtotal == Subtotal(itemReq.quantidade, f.produto.preco)
                   item == [produto_id |-> itemReq.produto_id,
                            quantidade |-> itemReq.quantidade,
                            preco_unitario |-> f.produto.preco,
                            subtotal |-> subtotal]
                   saldo == [db EXCEPT !.produtos[itemReq.produto_id].estoque =
                                          @ - itemReq.quantidade]
                   r == PrepararItensComSaldo(saldo, Tail(reqItens),
                                              Append(itens, item),
                                              valorTotal + subtotal)
               IN [r EXCEPT !.buscas = <<itemReq.produto_id>> \o @]

RECURSIVE PrepararItensAteOFim(_, _, _, _)
PrepararItensAteOFim(db, reqItens, itens, valorTotal) ==
  IF reqItens = <<>>
  THEN [err |-> Nil, itens |-> itens, valor_total |-> valorTotal,
        buscas |-> <<>>]
  ELSE LET itemReq == Head(reqItens)
           f == ProdutoRepoFindByID(db, itemReq.produto_id)
           e == IF f.err # Nil
                THEN [kind |-> ErrProdutoNaoEnc,
                      detail |-> RuneString(itemReq.produto_id)]
                ELSE VerificarProduto(f.produto, itemReq)
           subtotal == Subtotal(itemReq.quantidade, f.produto.preco)
           item == [produto_id |-> itemReq.produto_id,
                    quantidade |-> itemReq.quantidade,
                    preco_unitario |-> f.produto.preco,
                    subtotal |-> subtotal]
           r == IF e # Nil
                THEN PrepararItensAteOFim(db, Tail(reqItens), itens, valorTotal)
                ELSE PrepararItensAteOFim(db, Tail(reqItens),
                                          Append(itens, item),
                                          valorTotal + subtotal)
       IN [r EXCEPT !.err = IF e # Nil THEN e ELSE @,
                    !.buscas = <<itemReq.produto_id>> \o @]

\* the loop over req.Itens: it returns at the first line that fails; buscas
\* lists the product ids given to produtoRepo.FindByID, in call order
RECURSIVE PrepararItens(_, _, _, _)
PrepararItens(db, reqItens, itens, valorTotal) ==
  IF reqItens = <<>>
  THEN [err |-> Nil, itens |-> itens, valor_total |-> valorTotal,
        buscas |-> <<>>]
  ELSE LET itemReq == Head(reqItens)
           f == ProdutoRepoFindByID(db, itemReq.produto_id)
       IN IF f.err # Nil
          THEN [err |-> [kind |-> ErrProdutoNaoEnc,
                         detail |-> RuneString(itemReq.produto_id)],
                itens |-> itens, valor_total |-> valorTotal,
                buscas |-> <<itemReq.produto_id>>]
          ELSE IF VerificarProduto(f.produto, itemReq) # Nil
          THEN [err |-> VerificarProduto(f.produto, itemReq),
                itens |-> itens, valor_total |-> valorTotal,
                buscas |-> <<itemReq.produto_id>>]
          ELSE LET subtotal == Subtotal(itemReq.quantidade, f.produto.preco)
                   item == [produto_id |-> itemReq.produto_id,
                            quantidade |-> itemReq.quantidade,
                            preco_unitario |-> f.produto.preco,
                            subtotal |-> subtotal]
                   r == PrepararItens(db, Tail(reqItens), Append(itens, item),
                                      valorTotal + subtotal)
               IN [r EXCEPT !.buscas = <<itemReq.produto_id>> \o @]

\* DataPedido: time.Now(), read as a logical clock that ticks once per order
\* row (two orders never carry the same reading)
TimeNow(db) == Len(db.pedidos) + 1

StatusPadraoSempre(status) == "pendente"

\* status := req.Status; if status == "" { status = "pendente" }
StatusPadrao(status) == IF status = "" THEN "pendente" ELSE status

\* Create.  The customer lookup answers (nil, nil) for an id that does not
\* resolve, so err is nil and the request goes on; the nil customer is
\* dereferenced only after the order has been stored.
PedidoServiceCreate(db, req) ==
  IF ~ValidaCreatePedidoRequest(req)
  THEN [db |-> db, id |-> 0,
        err |-> [kind |-> ErrValidation,
                 detail |-> CamposCreatePedidoRequest(req)]]
  ELSE LET c == ClienteRepoFindByID(db, req.cliente_id) IN
  IF c.err # Nil
  THEN [db |-> db, err |-> Erro(ErrClienteNaoEnc), id |-> 0]
  ELSE LET v == PrepararItens(db, req.itens, <<>>, 0) IN
  IF v.err # Nil
  THEN [db |-> db, err |-> v.err, id |-> 0]
  ELSE LET pedido == [cliente_id |-> req.cliente_id,
                      itens |-> v.itens,
                      valor_total |-> v.valor_total,
                      status |-> StatusPadrao(req.status),
                      data_pedido |-> TimeNow(db)]
           cr == PedidoRepoCreate(db, pedido)
       IN IF cr.err # Nil
          THEN [db |-> cr.db, err |-> cr.err, id |-> 0]
          ELSE LET f == PedidoRepoFindByID(cr.db, cr.id)
               IN IF f.err # Nil
                  THEN [db |-> cr.db, err |-> f.err, id |-> 0]
                  ELSE IF c.cliente = NilPtr
                  THEN [db |-> cr.db, err |-> Erro(Panic), id |-> 0]
                  ELSE [db |-> cr.db, err |-> Nil, id |-> cr.id]

PedidoServiceUpdateStatusComGrafo(db, id, req) ==
  IF ~ValidaUpdatePedidoRequest(req)
  THEN [db |-> db, err |-> Erro(ErrValidation)]
  ELSE LET f == PedidoRepoFindByID(db, id) IN
  IF f.err # Nil THEN [db |-> db, err |-> f.err]
  ELSE IF f.pedido.status \in {"entregue", "cancelado"}
  THEN [db |-> db, err |-> Erro(ErrValidation)]
  ELSE PedidoRepoUpdate(db, [f.pedido EXCEPT !.status = req.status])

\* UpdateStatus: validate, load the aggregate, set Status, Save
PedidoServiceUpdateStatus(db, id, req) ==
  IF ~ValidaUpdatePedidoRequest(req)
  THEN [db |-> db, err |-> [kind |-> ErrValidation, detail |-> <<"Status">>]]
  ELSE LET f == PedidoRepoFindByID(db, id) IN
  IF f.err # Nil THEN [db |-> db, err |-> f.err]
  ELSE PedidoRepoUpdate(db, [f.pedido EXCEPT !.status = req.status])

PedidoServiceDeleteSemBusca(db, id) ==
  [db |-> PedidoRepoDelete(db, id).db, err |-> Nil]

\* Delete: look the order up, then soft-delete it
PedidoServiceDelete(db, id) ==
  LET f == PedidoRepoFindByID(db, id)
  IN IF f.err # Nil THEN [db |-> db, err |-> f.err]
     ELSE PedidoRepoDelete(db, id)

\* ----------------------------------------------------- PedidoController
\* net/http status codes the handlers answer with
StatusOK == 200

StatusCreated == 201

StatusNoContent == 204

StatusBadRequest == 400

StatusNotFound == 404

StatusInternalServerError == 500

\* Create: the body is already decoded; every error of the service is
\* answered 500, and so is the panic that middleware.Recovery catches
PedidoControllerCreate(db, req) ==
  LET r == PedidoServiceCreate(db, req)
  IN [db |-> r.db, err |-> r.err,
      http |-> IF r.err = Nil THEN StatusCreated
               ELSE StatusInternalServerError]

PedidoControllerUpdateStatusSem404(db, id, req) ==
  LET r == PedidoServiceUpdateStatus(db, id, req)
  IN [db |-> r.db, err |-> r.err,
      http |-> IF r.err = Nil THEN StatusOK ELSE StatusInternalServerError]

\* UpdateStatus: "pedido not found" is answered 404, any other error 500
PedidoControllerUpdateStatus(db, id, req) ==
  LET r == PedidoServiceUpdateStatus(db, id, req)
  IN [db |-> r.db, err |-> r.err,
      http |-> IF r.err = Nil THEN StatusOK
               ELSE IF r.err.kind = ErrPedidoNotFound THEN StatusNotFound
               ELSE StatusInternalServerError]

\* Delete: "pedido not found" is answered 404, any other error 500
PedidoControllerDelete(db, id) ==
  LET r == PedidoServiceDelete(db, id)
  IN [db |-> r.db, err |-> r.err,
      http |-> IF r.err = Nil THEN StatusNoContent
               ELSE IF r.err.kind = ErrPedidoNotFound THEN StatusNotFound
               ELSE StatusInternalServerError]

\* ---------------------------------------------------------------- state
\* the handler goroutines that may be inside pedidoServiceImpl.Create at the
\* same time (net/http serves each request on a goroutine of its own)
Goroutines == 1..MaxEmCurso

Livre == [pc |-> "livre"]

Fim == [pc |-> "fim"]

Init ==
  /\ clientes = <<>>
  /\ produtos = <<>>
  /\ pedidos = <<>>
  /\ pedido_produtos = <<>>
  /\ resp = [op |-> "init", err |-> Nil, de |-> ""]
  /\ emCurso = [g \in Goroutines |-> Livre]

\* the store after a call that runs from start to end with no other call in
\* between; a table grows only within the table bounds of the model
Store(db) ==
  /\ Len(db.clientes) > Len(clientes) => Len(db.clientes) <= MaxClientes
  /\ Len(db.produtos) > Len(produtos) => Len(db.produtos) <= MaxProdutos
  /\ Len(db.pedidos) > Len(pedidos) => Len(db.pedidos) <= MaxPedidos
  /\ clientes' = db.clientes
  /\ produtos' = db.produtos
  /\ pedidos' = db.pedidos
  /\ pedido_produtos' = db.pedido_produtos
  /\ UNCHANGED emCurso

\* ---------------------------------------------------------------- calls
\* resp is what the caller gets back: the call, its error, and for a status
\* update the status the order was loaded with; the order routes also give
\* the HTTP status of the answer
ClienteCreate(req) ==
  /\ req.duplicado => Len(clientes) > 0
  /\ LET r == ClienteServiceCreate(DB, req)
     IN /\ Store(r.db)
        /\ resp' = [op |-> "ClienteCreate", err |-> r.err, de |-> ""]

ClienteDelete(id) ==
  LET r == ClienteServiceDelete(DB, id)
  IN /\ Store(r.db)
     /\ resp' = [op |-> "ClienteDelete", err |-> r.err, de |-> ""]

ProdutoCreate(req) ==
  LET r == ProdutoServiceCreate(DB, req)
  IN /\ Store(r.db)
     /\ resp' = [op |-> "ProdutoCreate", err |-> r.err, de |-> ""]

ProdutoUpdate(id, req) ==
  LET r == ProdutoServiceUpdate(DB, id, req)
  IN /\ Store(r.db)
     /\ resp' = [op |-> "ProdutoUpdate", err |-> r.err, de |-> ""]

ProdutoDelete(id) ==
  LET r == ProdutoServiceDelete(DB, id)
  IN /\ Store(r.db)
     /\ resp' = [op |-> "ProdutoDelete", err |-> r.err, de |-> ""]

PedidoCreate(req) ==
  LET r == PedidoControllerCreate(DB, req)
  IN /\ Store(r.db)
     /\ resp' = [op |-> "PedidoCreate", err |-> r.err, de |-> "",
                 http |-> r.http]

PedidoUpdateStatus(id, req) ==
  LET r == PedidoControllerUpdateStatus(DB, id, req)
  IN /\ Store(r.db)
     /\ resp' = [op |-> "PedidoUpdateStatus", err |-> r.err,
                 de |-> IF r.err = Nil THEN pedidos[id].status ELSE "",
                 http |-> r.http]

PedidoDelete(id) ==
  LET r == PedidoControllerDelete(DB, id)
  IN /\ Store(r.db)
     /\ resp' = [op |-> "PedidoDelete", err |-> r.err, de |-> "",
                 http |-> r.http]

\* ------------------------------------------------------------- requests
\* ids a caller may name: the rows there can be, and one that cannot exist
ClienteIds == 1..(MaxClientes + 1)

ProdutoIds == 1..(MaxProdutos + 1)

PedidoIds  == 1..(MaxPedidos + 1)

CreateClienteRequests == [valido : BOOLEAN, duplicado : BOOLEAN]

CreateProdutoRequests(precos, estoques, skus, ativos) ==
  [preco : precos, estoque : estoques, sku : skus, ativo : ativos]

UpdateProdutoRequests(precos, estoques, skus, ativos) ==
  [preco : precos, estoque : estoques, sku : skus, ativo : ativos]

\* well-formed items, and one item for each way of failing the item rules
CreateItemPedidoRequests(produtoIds) ==
  [produto_id : produtoIds, quantidade : Quantidades]
    \cup {[produto_id |-> 0, quantidade |-> 1],
          [produto_id |-> 1, quantidade |-> 0]}

ItensRequests(produtoIds) ==
  UNION {[1..n -> CreateItemPedidoRequests(produtoIds)] : n \in 0..MaxItens}

CreatePedidoRequests(clienteIds, produtoIds, status) ==
  [cliente_id : clienteIds, itens : ItensRequests(produtoIds), status : status]

UpdatePedidoRequests(status) == [status : status]

\* ------------------------------------------------------- specifications
\* Spec: every operation, from the empty database.  One price and one SKU
\* are in use (so at most one product row), orders name customer 1 (which
\* resolves or not, as the customer is created and deleted) or no customer,
\* and the status requests name two of the five statuses, the empty one and
\* one outside the vocabulary.
ProdutoCreateReqs == CreateProdutoRequests({0, 9999}, Estoques, {"SKU-A"}, {"nil", "false"})

ProdutoUpdateReqs == UpdateProdutoRequests({0}, Estoques, {""}, AtivoOpts)

PedidoCreateReqs ==
  CreatePedidoRequests({0, 1}, 1..2, {"", "pago", "confirmado"})

PedidoUpdateReqs == UpdatePedidoRequests({"pendente", "pago", "confirmado"})

Next ==
  \/ \E req \in CreateClienteRequests : ClienteCreate(req)
  \/ \E id \in ClienteIds : ClienteDelete(id)
  \/ \E req \in ProdutoCreateReqs : ProdutoCreate(req)
  \/ \E id \in 1..2, req \in ProdutoUpdateReqs : ProdutoUpdate(id, req)
  \/ \E id \in 1..2 : ProdutoDelete(id)
  \/ \E req \in PedidoCreateReqs : PedidoCreate(req)
  \/ \E id \in PedidoIds, req \in PedidoUpdateReqs : PedidoUpdateStatus(id, req)
  \/ \E id \in PedidoIds : PedidoDelete(id)

Spec == Init /\ [][Next]_vars

\* ------------------------------------------------- what a request names
\* line i of req names a product that resolves
LinhaResolve(req, i) == Live(produtos, req.itens[i].produto_id)

\* line i asks for more than the stock of the product it names
LinhaSemEstoque(req, i) ==
  /\ LinhaResolve(req, i)
  /\ req.itens[i].quantidade > produtos[req.itens[i].produto_id].estoque

\* line i names a product whose active flag is false
LinhaInativa(req, i) ==
  /\ LinhaResolve(req, i)
  /\ ~produtos[req.itens[i].produto_id].ativo

\* line i passes every check of the loop
LinhaOk(req, i) ==
  LinhaResolve(req, i) /\ ~LinhaSemEstoque(req, i) /\ ~LinhaInativa(req, i)

\* line i is the first line that fails a check
PrimeiraFalha(req, i) ==
  ~LinhaOk(req, i) /\ \A j \in 1..(i - 1) : LinhaOk(req, j)

NadaPersistido(r) ==
  r.db.pedidos = pedidos /\ r.db.pedido_produtos = pedido_produtos

\* ---------------------------------------------------------------- C2
\* C2 (as claimed, for requests whose lines all pass their checks): a Create
\* whose customer id does not resolve (never created, or deleted) fails with
\* the customer-not-found error and leaves the orders and lines as they were.
C2_ClienteNaoEncontrado ==
  \A req \in PedidoCreateReqs :
    (/\ ValidaCreatePedidoRequest(req)
     /\ ~Live(clientes, req.cliente_id)
     /\ \A i \in 1..Len(req.itens) : LinhaOk(req, i)) =>
      LET r == PedidoServiceCreate(DB, req)
      IN r.err.kind = ErrClienteNaoEnc /\ NadaPersistido(r)

\* ---------------------------------------------------------------- C3
\* C3 (as claimed): no line is still stored while its owning order is deleted.
C3_CascataItens ==
  \A i \in 1..Len(pedido_produtos) :
    ~pedido_produtos[i].deleted =>
      ~pedidos[pedido_produtos[i].pedido_id].deleted

\* ---------------------------------------------------------------- C4
\* C4 (as claimed): deleting a customer or a product that a stored order
\* references is rejected.
C4_DeleteRestrito ==
  /\ \A p \in LiveIds(pedidos) :
        Live(clientes, pedidos[p].cliente_id) =>
          ClienteServiceDelete(DB, pedidos[p].cliente_id).err # Nil
  /\ \A i \in LiveIds(pedido_produtos) :
        (Live(pedidos, pedido_produtos[i].pedido_id)
           /\ Live(produtos, pedido_produtos[i].produto_id)) =>
          ProdutoServiceDelete(DB, pedido_produtos[i].produto_id).err # Nil

\* ---------------------------------------------------------------- C6
\* C6 (as claimed): a Create in which some line asks for more than the
\* product's stock fails with the insufficient-stock error, persisting nothing.
C6_Original ==
  \A req \in PedidoCreateReqs :
    (ValidaCreatePedidoRequest(req)
       /\ \E i \in 1..Len(req.itens) : LinhaSemEstoque(req, i)) =>
      LET r == PedidoServiceCreate(DB, req)
      IN r.err.kind = ErrEstoque /\ NadaPersistido(r)

\* C6 (amended): a Create in which some line asks for more than the
\* product's stock persists nothing, and it fails with the
\* insufficient-stock error when that line is the first line to fail.
C6_EstoqueInsuficiente ==
  \A req \in PedidoCreateReqs :
    ValidaCreatePedidoRequest(req) =>
      LET r == PedidoServiceCreate(DB, req)
      IN \A i \in 1..Len(req.itens) :
           LinhaSemEstoque(req, i) =>
             /\ r.err # Nil
             /\ NadaPersistido(r)
             /\ PrimeiraFalha(req, i) => r.err.kind = ErrEstoque

C6_Witness ==
  /\ resp.op = "PedidoCreate"
  /\ resp.err.kind = ErrEstoque
  /\ \E p \in LiveIds(produtos) : produtos[p].estoque = 1 /\ produtos[p].ativo
  /\ LiveIds(clientes) # {}
  /\ pedidos = <<>>

\* ---------------------------------------------------------------- C7
\* C7 (as claimed): a Create in which some line names an inactive product
\* fails with the product-inactive error, persisting nothing.
C7_Original ==
  \A req \in PedidoCreateReqs :
    (ValidaCreatePedidoRequest(req)
       /\ \E i \in 1..Len(req.itens) : LinhaInativa(req, i)) =>
      LET r == PedidoServiceCreate(DB, req)
      IN r.err.kind = ErrInativo /\ NadaPersistido(r)

\* C7 (amended): a Create in which some line names an inactive product
\* persists nothing, and it fails with the product-inactive error when that
\* line is the first line to fail and the product's stock covers its quantity.
C7_ProdutoInativo ==
  \A req \in PedidoCreateReqs :
    ValidaCreatePedidoRequest(req) =>
      LET r == PedidoServiceCreate(DB, req)
      IN \A i \in 1..Len(req.itens) :
           LinhaInativa(req, i) =>
             /\ r.err # Nil
             /\ NadaPersistido(r)
             /\ (PrimeiraFalha(req, i) /\ ~LinhaSemEstoque(req, i))
                  => r.err.kind = ErrInativo

C7_Witness ==
  /\ resp.op = "PedidoCreate"
  /\ resp.err.kind = ErrInativo
  /\ \E p \in LiveIds(produtos) : ~produtos[p].ativo
  /\ LiveIds(clientes) # {}
  /\ pedidos = <<>>

\* ---------------------------------------------------------------- C8
\* C8 (as claimed): a Create in which some line names a product id that
\* does not resolve fails with the product-not-found error, persisting nothing.
C8_Original ==
  \A req \in PedidoCreateReqs :
    (ValidaCreatePedidoRequest(req)
       /\ \E i \in 1..Len(req.itens) : ~LinhaResolve(req, i)) =>
      LET r == PedidoServiceCreate(DB, req)
      IN r.err.kind = ErrProdutoNaoEnc /\ NadaPersistido(r)

\* C8 (amended): a Create in which some line names a product id that does
\* not resolve (never created, or deleted) persists nothing, and it fails
\* with the product-not-found error when that line is the first line to fail.
C8_ProdutoNaoEncontrado ==
  \A req \in PedidoCreateReqs :
    ValidaCreatePedidoRequest(req) =>
      LET r == PedidoServiceCreate(DB, req)
      IN \A i \in 1..Len(req.itens) :
           ~LinhaResolve(req, i) =>
             /\ r.err # Nil
             /\ NadaPersistido(r)
             /\ PrimeiraFalha(req, i) => r.err.kind = ErrProdutoNaoEnc

C8_Witness ==
  /\ resp.op = "PedidoCreate"
  /\ resp.err.kind = ErrProdutoNaoEnc
  /\ Len(produtos) = 1 /\ produtos[1].deleted
  /\ LiveIds(clientes) # {}
  /\ pedidos = <<>>

\* ------------------------------------------------------------ SpecPreco
\* SpecPreco: pricing.  Two products under two prices, orders of up to
\* MaxItens lines, later price changes and status updates.
PrecoProdutoCreateReqs == CreateProdutoRequests(Precos, {2}, Skus, {"nil"})

PrecoProdutoUpdateReqs == UpdateProdutoRequests(Precos \cup {0}, {2}, {""}, {"nil"})

PrecoPedidoCreateReqs == CreatePedidoRequests({1}, ProdutoIds, {""})

NextPreco ==
  \/ ClienteCreate([valido |-> TRUE, duplicado |-> FALSE])
  \/ \E req \in PrecoProdutoCreateReqs : ProdutoCreate(req)
  \/ \E id \in ProdutoIds, req \in PrecoProdutoUpdateReqs : ProdutoUpdate(id, req)
  \/ \E req \in PrecoPedidoCreateReqs : PedidoCreate(req)
  \/ \E id \in PedidoIds : PedidoUpdateStatus(id, [status |-> "pago"])
  \/ \E id \in PedidoIds : PedidoDelete(id)

SpecPreco == Init /\ [][NextPreco]_vars

\* lines of order p, in primary-key order
LinhasDe(tab, p) == SeqOfSet({i \in 1..Len(tab) : tab[i].pedido_id = p})

RECURSIVE Soma(_, _)
Soma(f, ids) ==
  IF ids = <<>> THEN 0 ELSE f[Head(ids)] + Soma(f, Tail(ids))

\* sum over the stored lines of order p of quantity x unit price
SomaLinhas(tab, p) ==
  Soma([i \in 1..Len(tab) |-> tab[i].quantidade * tab[i].preco_unitario],
       LinhasDe(tab, p))

C5_PrecoCongelado ==
  \A id \in ProdutoIds, req \in PrecoProdutoUpdateReqs :
    LET r == ProdutoServiceUpdate(DB, id, req)
    IN r.db.pedidos = pedidos /\ r.db.pedido_produtos = pedido_produtos

\* a price change has gone through and a stored line still has the old price
C5_Witness ==
  /\ resp.op = "ProdutoUpdate" /\ resp.err = Nil
  /\ \E i \in 1..Len(pedido_produtos) :
       /\ pedido_produtos[i].preco_unitario = 9999
       /\ pedido_produtos[i].subtotal = 19998
       /\ produtos[pedido_produtos[i].produto_id].preco = 299999

\* ----------------------------------------------------------- SpecStatus
\* SpecStatus: the status vocabulary.  One customer, one product, one-line
\* orders; Create and UpdateStatus are offered every status string.
StatusPedidoCreateReqs ==
  [cliente_id : ClienteIds,
   itens : {<<[produto_id |-> 1, quantidade |-> 1]>>},
   status : StatusPedidos]

StatusPedidoUpdateReqs == UpdatePedidoRequests(StatusPedidos)

NextStatus ==
  \/ ClienteCreate([valido |-> TRUE, duplicado |-> FALSE])
  \/ \E id \in ClienteIds : ClienteDelete(id)
  \/ ProdutoCreate([preco |-> 9999, estoque |-> 2, sku |-> "SKU-A", ativo |-> "nil"])
  \/ \E req \in StatusPedidoCreateReqs : PedidoCreate(req)
  \/ \E id \in PedidoIds, req \in StatusPedidoUpdateReqs : PedidoUpdateStatus(id, req)
  \/ \E id \in PedidoIds : PedidoDelete(id)

SpecStatus == Init /\ [][NextStatus]_vars

C10_QualquerTransicao ==
  \A id \in LiveIds(pedidos), st \in StatusValidos :
    LET r == PedidoServiceUpdateStatus(DB, id, [status |-> st])
    IN r.err = Nil /\ r.db.pedidos[id].status = st

\* delivered -> pending has gone through
C10_Witness ==
  /\ resp.op = "PedidoUpdateStatus" /\ resp.err = Nil /\ resp.de = "entregue"
  /\ \E p \in LiveIds(pedidos) : pedidos[p].status = "pendente"

C12_Original ==
  \A id \in PedidoIds, req \in StatusPedidoUpdateReqs :
    ~Live(pedidos, id) =>
      LET r == PedidoControllerUpdateStatus(DB, id, req)
      IN /\ r.err.kind = ErrPedidoNotFound
         /\ r.http = StatusNotFound
         /\ r.db = DB

\* C12 (amended): an UpdateStatus on an order id that does not resolve (never
\* created, or deleted) fails and changes no table; when the request names one
\* of the five statuses the error is order-not-found, answered 404.
C12_PedidoNaoEncontrado ==
  \A id \in PedidoIds, req \in StatusPedidoUpdateReqs :
    ~Live(pedidos, id) =>
      LET r == PedidoControllerUpdateStatus(DB, id, req)
      IN /\ r.err # Nil
         /\ r.db = DB
         /\ ValidaUpdatePedidoRequest(req) =>
              (r.err.kind = ErrPedidoNotFound /\ r.http = StatusNotFound)

\* a status update on a deleted order was answered 404 and the order is
\* still deleted
C12_Witness ==
  /\ resp.op = "PedidoUpdateStatus"
  /\ resp.err.kind = ErrPedidoNotFound
  /\ resp.http = StatusNotFound
  /\ Len(pedidos) = 1 /\ pedidos[1].deleted

\* ---------------------------------------------------------------- C13
\* C13: Delete on an order id that does not resolve (never created, or
\* already deleted) fails with not-found and leaves every table as it was.
C13_DeleteNaoEncontrado ==
  \A id \in PedidoIds :
    ~Live(pedidos, id) =>
      LET r == PedidoServiceDelete(DB, id)
      IN r.err.kind = ErrPedidoNotFound /\ r.db = DB

\* the only order there is has been deleted, and a Delete was then refused
C13_Witness ==
  /\ resp.op = "PedidoDelete"
  /\ resp.err.kind = ErrPedidoNotFound
  /\ Len(pedidos) = 1 /\ pedidos[1].deleted
  /\ Len(pedido_produtos) = 1

\* ---------------------------------------------------------------- C14
\* C14: a Create stores either nothing, or the order row together with one
\* line row per requested line (same product and quantity, in request order);
\* and in every reachable state each line row belongs to an order row and each
\* order row has at least one line row.
C14_TudoOuNada ==
  /\ \A req \in PedidoCreateReqs :
        LET r == PedidoServiceCreate(DB, req)
            n == Len(pedidos)
            m == Len(pedido_produtos)
        IN \/ NadaPersistido(r)
           \/ /\ Len(r.db.pedidos) = n + 1
              /\ SubSeq(r.db.pedidos, 1, n) = pedidos
              /\ Len(r.db.pedido_produtos) = m + Len(req.itens)
              /\ SubSeq(r.db.pedido_produtos, 1, m) = pedido_produtos
              /\ \A i \in 1..Len(req.itens) :
                   LET l == r.db.pedido_produtos[m + i]
                   IN /\ l.pedido_id = n + 1
                      /\ l.produto_id = req.itens[i].produto_id
                      /\ l.quantidade = req.itens[i].quantidade
  /\ \A i \in 1..Len(pedido_produtos) :
        pedido_produtos[i].pedido_id \in 1..Len(pedidos)
  /\ \A p \in 1..Len(pedidos) :
        \E i \in 1..Len(pedido_produtos) : pedido_produtos[i].pedido_id = p

\* a Create of two lines has succeeded: one order row and its two line rows
C14_Witness ==
  /\ resp.op = "PedidoCreate" /\ resp.err = Nil
  /\ Len(pedidos) = 1
  /\ Len(pedido_produtos) = 2
  /\ \A i \in 1..2 : pedido_produtos[i].pedido_id = 1

\* ---------------------------------------------------------------- C16
\* C16: a Create, whether it succeeds or fails, leaves the products and the
\* customers as they were (stock, price and active flag included).
C16_CreateSoLe ==
  \A req \in PedidoCreateReqs :
    LET r == PedidoServiceCreate(DB, req)
    IN r.db.produtos = produtos /\ r.db.clientes = clientes

\* the whole stock of a product has just been ordered and the stock is the same
C16_Witness ==
  /\ resp.op = "PedidoCreate" /\ resp.err = Nil
  /\ \E i \in 1..Len(pedido_produtos) :
       /\ pedido_produtos[i].quantidade = 2
       /\ produtos[pedido_produtos[i].produto_id].estoque = 2

\* ---------------------------------------------------------------- C18
\* C18: every order row has at least one line row; a Create with an empty
\* item list fails validation on Itens, whatever else the request names
\* (resolving customer or not), and stores nothing.
C18_SemItens ==
  /\ \A p \in 1..Len(pedidos) : LinhasDe(pedido_produtos, p) # <<>>
  /\ \A req \in PedidoCreateReqs :
        req.itens = <<>> =>
          LET r == PedidoServiceCreate(DB, req)
          IN /\ r.err.kind = ErrValidation
             /\ \E k \in 1..Len(r.err.detail) : r.err.detail[k] = "Itens"
             /\ r.db = DB

\* a customer and a product are there, and an empty cart was refused on Itens
C18_Witness ==
  /\ resp.op = "PedidoCreate"
  /\ resp.err = [kind |-> ErrValidation, detail |-> <<"Itens">>]
  /\ LiveIds(clientes) # {} /\ LiveIds(produtos) # {}
  /\ pedidos = <<>>

\* ---------------------------------------------------------------- C19
\* C19: whenever a Create stores an order, the stored status is pendente if
\* the request's status is empty and the requested status otherwise; and a
\* request that names a customer and a product that resolve, with the status
\* empty or one of the five, does store its order.
C19_StatusInicial ==
  \A req \in StatusPedidoCreateReqs :
    LET r == PedidoServiceCreate(DB, req)
        n == Len(pedidos)
    IN /\ Len(r.db.pedidos) > n =>
            r.db.pedidos[n + 1].status =
              (IF req.status = "" THEN "pendente" ELSE req.status)
       /\ (/\ req.status \in StatusValidos \cup {""}
           /\ Live(clientes, req.cliente_id)
           /\ Live(produtos, 1))
            => (r.err = Nil /\ Len(r.db.pedidos) = n + 1)

\* a Create naming enviado has succeeded and the order is stored as enviado
C19_Witness ==
  /\ resp.op = "PedidoCreate" /\ resp.err = Nil
  /\ \E p \in LiveIds(pedidos) : pedidos[p].status = "enviado"

\* ---------------------------------------------------------------- C20
\* C20 (as claimed): a create-order or status-update request that fails field
\* validation is answered with HTTP 400 and changes no table.
C20_Validacao400 ==
  /\ \A req \in PedidoCreateReqs :
        ~ValidaCreatePedidoRequest(req) =>
          LET r == PedidoControllerCreate(DB, req)
          IN r.http = StatusBadRequest /\ r.db = DB
  /\ \A id \in PedidoIds, req \in PedidoUpdateReqs :
        ~ValidaUpdatePedidoRequest(req) =>
          LET r == PedidoControllerUpdateStatus(DB, id, req)
          IN r.http = StatusBadRequest /\ r.db = DB

\* ------------------------------------------------------ SpecConcorrente
\* pedidoServiceImpl.Create one store call at a time.  Each goroutine serves
\* one request: it validates and looks the customer up, looks up and checks
\* one product per step, stores the aggregate, and reads it back to answer.
\* Between two steps of one goroutine any other call may run.
RespCreate(err) ==
  [op |-> "PedidoCreate", err |-> err, de |-> "",
   http |-> IF err = Nil THEN StatusCreated ELSE StatusInternalServerError]

\* s.validate.Struct(req); s.clienteRepo.FindByID(ctx, req.ClienteID)
CreateInicio(g, req) ==
  /\ emCurso[g].pc = "livre"
  /\ UNCHANGED <<clientes, produtos, pedidos, pedido_produtos>>
  /\ IF ~ValidaCreatePedidoRequest(req)
     THEN /\ emCurso' = [emCurso EXCEPT ![g] = Fim]
          /\ resp' = RespCreate([kind |-> ErrValidation,
                                 detail |-> CamposCreatePedidoRequest(req)])
     ELSE LET c == ClienteRepoFindByID(DB, req.cliente_id)
          IN IF c.err # Nil
             THEN /\ emCurso' = [emCurso EXCEPT ![g] = Fim]
                  /\ resp' = RespCreate(Erro(ErrClienteNaoEnc))
             ELSE /\ emCurso' = [emCurso EXCEPT ![g] =
                                   [pc |-> "itens", req |-> req,
                                    cliente |-> c.cliente, itens |-> <<>>,
                                    valor_total |-> 0, estoque |-> 0]]
                  /\ UNCHANGED resp

\* one turn of the loop over req.Itens; estoque keeps the stock count the
\* last lookup read
CreateItem(g) ==
  /\ emCurso[g].pc = "itens"
  /\ Len(emCurso[g].itens) < Len(emCurso[g].req.itens)
  /\ UNCHANGED <<clientes, produtos, pedidos, pedido_produtos>>
  /\ LET itemReq == emCurso[g].req.itens[Len(emCurso[g].itens) + 1]
         f == ProdutoRepoFindByID(DB, itemReq.produto_id)
     IN IF f.err # Nil
        THEN /\ emCurso' = [emCurso EXCEPT ![g] = Fim]
             /\ resp' = RespCreate([kind |-> ErrProdutoNaoEnc,
                                    detail |-> RuneString(itemReq.produto_id)])
        ELSE IF VerificarProduto(f.produto, itemReq) # Nil
        THEN /\ emCurso' = [emCurso EXCEPT ![g] = Fim]
             /\ resp' = RespCreate(VerificarProduto(f.produto, itemReq))
        ELSE LET subtotal == Subtotal(itemReq.quantidade, f.produto.preco)
                 item == [produto_id |-> itemReq.produto_id,
                          quantidade |-> itemReq.quantidade,
                          preco_unitario |-> f.produto.preco,
                          subtotal |-> subtotal]
             IN /\ emCurso' = [emCurso EXCEPT
                                 ![g].itens = Append(@, item),
                                 ![g].valor_total = @ + subtotal,
                                 ![g].estoque = f.produto.estoque]
                /\ UNCHANGED resp

\* the aggregate a goroutine is about to store
PedidoDe(g) ==
  [cliente_id |-> emCurso[g].req.cliente_id,
   itens |-> emCurso[g].itens,
   valor_total |-> emCurso[g].valor_total,
   status |-> StatusPadrao(emCurso[g].req.status),
   data_pedido |-> TimeNow(DB)]

\* every line passed its checks
Verificado(g) ==
  /\ emCurso[g].pc = "itens"
  /\ Len(emCurso[g].itens) = Len(emCurso[g].req.itens)

\* s.pedidoRepo.Create(ctx, pedido)
CreateGravar(g) ==
  /\ Verificado(g)
  /\ LET cr == PedidoRepoCreate(DB, PedidoDe(g))
     IN /\ clientes' = cr.db.clientes
        /\ produtos' = cr.db.produtos
        /\ pedidos' = cr.db.pedidos
        /\ pedido_produtos' = cr.db.pedido_produtos
        /\ IF cr.err # Nil
           THEN /\ emCurso' = [emCurso EXCEPT ![g] = Fim]
                /\ resp' = RespCreate(cr.err)
           ELSE /\ emCurso' = [emCurso EXCEPT ![g] =
                                 [pc |-> "gravado", req |-> emCurso[g].req,
                                  cliente |-> emCurso[g].cliente,
                                  estoque |-> emCurso[g].estoque,
                                  id |-> cr.id]]
                /\ UNCHANGED resp

\* what the re-fetch step of goroutine g ends with: the error of FindByID,
\* the panic of dereferencing a nil customer, or no error
ErroDaResposta(g) ==
  LET f == PedidoRepoFindByID(DB, emCurso[g].id)
  IN IF f.err # Nil THEN f.err
     ELSE IF emCurso[g].cliente = NilPtr THEN Erro(Panic)
     ELSE Nil

\* s.pedidoRepo.FindByID(ctx, pedido.ID); pedidoCompleto.Cliente = *cliente
CreateResposta(g) ==
  /\ emCurso[g].pc = "gravado"
  /\ UNCHANGED <<clientes, produtos, pedidos, pedido_produtos>>
  /\ emCurso' = [emCurso EXCEPT ![g] = Fim]
  /\ resp' = RespCreate(ErroDaResposta(g))

\* orders of one or two lines on product 1, for customer 1
ConcPedidoCreateReqs ==
  [cliente_id : {1},
   itens : UNION {[1..n -> [produto_id : {1}, quantidade : Quantidades]] :
                    n \in 1..MaxItens},
   status : {""}]

\* each goroutine stores at most one order
ConcPedidoIds == 1..MaxEmCurso

NextConcorrente ==
  \/ ClienteCreate([valido |-> TRUE, duplicado |-> FALSE])
  \/ ProdutoCreate([preco |-> 9999, estoque |-> 2, sku |-> "SKU-A", ativo |-> "nil"])
  \/ \E g \in Goroutines, req \in ConcPedidoCreateReqs : CreateInicio(g, req)
  \/ \E g \in Goroutines : CreateItem(g)
  \/ \E g \in Goroutines : CreateGravar(g)
  \/ \E g \in Goroutines : CreateResposta(g)
  \/ \E id \in ConcPedidoIds : PedidoUpdateStatus(id, [status |-> "pago"])
  \/ \E id \in ConcPedidoIds : PedidoDelete(id)

SpecConcorrente == Init /\ [][NextConcorrente]_vars

\* quantity ordered of product p over the stored lines
QuantidadePedida(p) ==
  Soma([i \in 1..Len(pedido_produtos) |-> pedido_produtos[i].quantidade],
       SeqOfSet({i \in 1..Len(pedido_produtos) :
                   pedido_produtos[i].produto_id = p}))

\* ---------------------------------------------------------------- C15
\* C15: nothing serializes Creates on a product.  In every reachable state,
\* for every goroutine whose lines have all passed the stock check: the stock
\* count it read is still the product's stock, however much of the product
\* other requests have stored meanwhile, and its store call succeeds and adds
\* its order.
C15_SemSerializacao ==
  \A g \in Goroutines :
    Verificado(g) =>
      /\ emCurso[g].estoque = produtos[1].estoque
      /\ LET cr == PedidoRepoCreate(DB, PedidoDe(g))
         IN /\ cr.err = Nil
            /\ Len(cr.db.pedidos) = Len(pedidos) + 1
            /\ Len(cr.db.pedido_produtos) =
                 Len(pedido_produtos) + Len(emCurso[g].itens)

\* two requests are in flight at once, both read the same stock count, both
\* have stored their order, and the quantity ordered exceeds that stock
C15_Witness ==
  /\ \A g \in 1..2 : emCurso[g].pc = "gravado" /\ emCurso[g].cliente = 1
  /\ emCurso[1].estoque = emCurso[2].estoque
  /\ emCurso[1].estoque = produtos[1].estoque
  /\ Cardinality(LiveIds(pedidos)) = 2
  /\ QuantidadePedida(1) > produtos[1].estoque

\* ---------------------------------------------------------------- C17
\* C17: an UpdateStatus, failing or not, leaves the customers, the products
\* and every line row as they were, leaves every other order row as it was,
\* and changes nothing but the status of the order row it names (customer
\* reference, total and order date are the same).
C17_SoStatus ==
  \A id \in ConcPedidoIds, st \in StatusPedidos :
    LET r == PedidoServiceUpdateStatus(DB, id, [status |-> st])
    IN /\ r.db.clientes = clientes
       /\ r.db.produtos = produtos
       /\ r.db.pedido_produtos = pedido_produtos
       /\ Len(r.db.pedidos) = Len(pedidos)
       /\ \A p \in 1..Len(pedidos) :
            r.db.pedidos[p] =
              IF p = id /\ r.err = Nil
              THEN [pedidos[p] EXCEPT !.status = st]
              ELSE pedidos[p]

\* of two stored orders the first has just been moved to pago; the second is
\* still pendente and the first still has its two lines, total and date
C17_Witness ==
  /\ resp.op = "PedidoUpdateStatus" /\ resp.err = Nil
  /\ Len(pedidos) = 2
  /\ pedidos[1].status = "pago" /\ pedidos[2].status = "pendente"
  /\ pedidos[1].valor_total = 29997 /\ pedidos[1].data_pedido = 1
  /\ Len(LinhasDe(pedido_produtos, 1)) = 2

\* ---------------------------------------------------------- SpecProduto
\* The product operations, from the empty database.  A product Create runs
\* either from start to end, or one store call at a time in a goroutine:
\* the FindBySKU check first, the INSERT in a later step, with any other
\* call in between.
RespProdutoCreate(err) == [op |-> "ProdutoCreate", err |-> err, de |-> ""]

\* s.validate.Struct(req); s.repo.FindBySKU(ctx, req.SKU)
ProdutoCreateInicio(g, req) ==
  /\ emCurso[g].pc = "livre"
  /\ UNCHANGED <<clientes, produtos, pedidos, pedido_produtos>>
  /\ IF ~ValidaCreateProdutoRequest(req)
     THEN /\ emCurso' = [emCurso EXCEPT ![g] = Fim]
          /\ resp' = RespProdutoCreate(Erro(ErrValidation))
     ELSE IF ~IsNil(ProdutoRepoFindBySKU(DB, req.sku).produto)
     THEN /\ emCurso' = [emCurso EXCEPT ![g] = Fim]
          /\ resp' = RespProdutoCreate(Erro(ErrSKU))
     ELSE /\ emCurso' = [emCurso EXCEPT ![g] =
                           [pc |-> "inserir", produto |-> ProdutoDe(req)]]
          /\ UNCHANGED resp

\* s.repo.Create(ctx, produto)
ProdutoCreateGravar(g) ==
  /\ emCurso[g].pc = "inserir"
  /\ LET r == ProdutoRepoCreate(DB, emCurso[g].produto)
     IN /\ produtos' = r.db.produtos
        /\ resp' = RespProdutoCreate(r.err)
  /\ emCurso' = [emCurso EXCEPT ![g] = Fim]
  /\ UNCHANGED <<clientes, pedidos, pedido_produtos>>

\* creates of one price: a stock, either SKU, the flag absent, true or false
ProdProdutoCreateReqs == CreateProdutoRequests({9999}, {2}, Skus, AtivoOpts)

\* the creates that run step by step
ProdProdutoCreateConcReqs ==
  CreateProdutoRequests({0, 9999}, {2}, Skus, {"nil"})

\* updates that name a price or not (0), a stock or not (0), a SKU or not
\* (""), the flag or not ("nil")
ProdProdutoUpdateReqs ==
  UpdateProdutoRequests({0, 299999}, {0, 1}, {"", "SKU-B"}, {"nil", "false"})

ProdProdutoIds == 1..Cardinality(Skus)

NextProduto ==
  \/ \E req \in ProdProdutoCreateReqs : ProdutoCreate(req)
  \/ \E g \in Goroutines, req \in ProdProdutoCreateConcReqs :
       ProdutoCreateInicio(g, req)
  \/ \E g \in Goroutines : ProdutoCreateGravar(g)
  \/ \E id \in ProdProdutoIds, req \in ProdProdutoUpdateReqs :
       ProdutoUpdate(id, req)
  \/ \E id \in ProdProdutoIds : ProdutoDelete(id)

SpecProduto == Init /\ [][NextProduto]_vars

\* ---------------------------------------------------------------- C21
\* C21: no two product rows share a SKU; a Create whose SKU is held by a
\* product row, and an Update that names a SKU held by another product row,
\* fail and leave the database as it was; and the INSERT of a Create that
\* passed its FindBySKU check while another request stored the same SKU
\* fails and leaves the database as it was.
C21_SkuUnico ==
  /\ \A i, j \in 1..Len(produtos) :
       i # j => produtos[i].sku # produtos[j].sku
  /\ \A req \in ProdProdutoCreateReqs :
       SkuTaken(DB, req.sku, 0) =>
         LET r == ProdutoServiceCreate(DB, req)
         IN r.err # Nil /\ r.db = DB
  /\ \A id \in ProdProdutoIds, req \in ProdProdutoUpdateReqs :
       (req.sku # "" /\ SkuTaken(DB, req.sku, id)) =>
         LET r == ProdutoServiceUpdate(DB, id, req)
         IN r.err # Nil /\ r.db = DB
  /\ \A g \in Goroutines :
       (emCurso[g].pc = "inserir" /\ SkuTaken(DB, emCurso[g].produto.sku, 0)) =>
         LET r == ProdutoRepoCreate(DB, emCurso[g].produto)
         IN r.err # Nil /\ r.db = DB

\* two Creates of one SKU both passed the FindBySKU check; one INSERT stored
\* the only product row, the other has just failed on the unique index
C21_Witness ==
  /\ resp.op = "ProdutoCreate" /\ resp.err.kind = ErrConstraint
  /\ Len(produtos) = 1 /\ ~produtos[1].deleted
  /\ \A g \in Goroutines : emCurso[g] = Fim

\* ---------------------------------------------------------------- C22
\* C22 (as claimed): after a Create that succeeds, the product fetched by the
\* returned id, and the product fetched by its SKU, carry the price, stock,
\* SKU and (when the request gave one) active flag of the request.
C22_RoundTrip ==
  \A req \in ProdProdutoCreateReqs :
    LET r == ProdutoServiceCreate(DB, req)
    IN r.err = Nil =>
         LET a == ProdutoServiceFindByID(r.db, r.id).produto
             b == ProdutoRepoFindBySKU(r.db, req.sku).produto
         IN \A p \in {a, [x \in DOMAIN a |-> b[x]]} :
              /\ p.id = r.id
              /\ p.preco = req.preco
              /\ p.estoque = req.estoque
              /\ p.sku = req.sku
              /\ req.ativo # "nil" => p.ativo = (req.ativo = "true")

\* ---------------------------------------------------------------- C25
\* C25 (as claimed): an Update that succeeds leaves every field the request
\* does not provide as it was stored.  A request that leaves out the price,
\* the stock, the SKU or the flag decodes to 0, 0, "" and nil for it.
C25_SoCamposFornecidos ==
  \A id \in ProdProdutoIds, req \in ProdProdutoUpdateReqs :
    LET r == ProdutoServiceUpdate(DB, id, req)
    IN r.err = Nil =>
         /\ req.preco = 0 => r.db.produtos[id].preco = produtos[id].preco
         /\ req.estoque = 0 => r.db.produtos[id].estoque = produtos[id].estoque
         /\ req.sku = "" => r.db.produtos[id].sku = produtos[id].sku
         /\ req.ativo = "nil" => r.db.produtos[id].ativo = produtos[id].ativo

\* ---------------------------------------------------------------- C26
\* C26 (as claimed): a Create with the flag explicitly false stores an
\* inactive product, which a later order line for one unit is refused for as
\* inactive; a Create with the flag absent stores an active product.
C26_AtivoExplicito ==
  \A req \in ProdProdutoCreateReqs :
    LET r == ProdutoServiceCreate(DB, req)
    IN r.err = Nil =>
         LET p == ProdutoRepoFindByID(r.db, r.id).produto
         IN /\ req.ativo = "false" =>
                 /\ ~p.ativo
                 /\ VerificarProduto(p, [produto_id |-> r.id, quantidade |-> 1])
                      = Erro(ErrInativo)
            /\ req.ativo = "nil" => p.ativo

\* ---------------------------------------------------------------- C23
\* the error of line i of req, from the checks in the order of the loop
ErroDaLinha(req, i) ==
  IF ~LinhaResolve(req, i)
  THEN [kind |-> ErrProdutoNaoEnc, detail |-> RuneString(req.itens[i].produto_id)]
  ELSE IF LinhaSemEstoque(req, i) THEN Erro(ErrEstoque)
  ELSE Erro(ErrInativo)

\* C23: Create checks the lines in request order and stops at the first
\* line that fails.  For every valid request: when line i is the first
\* failing line, Create returns the error of line i and the product lookups
\* made are those of lines 1..i, in order, and no other; when no line fails,
\* the lookups are those of every line, in order.
C23_PrimeiraLinha ==
  \A req \in PedidoCreateReqs :
    ValidaCreatePedidoRequest(req) =>
      LET v == PrepararItens(DB, req.itens, <<>>, 0)
          r == PedidoServiceCreate(DB, req)
      IN /\ \A i \in 1..Len(req.itens) :
              PrimeiraFalha(req, i) =>
                /\ r.err = ErroDaLinha(req, i)
                /\ v.err = r.err
                /\ v.buscas = [j \in 1..i |-> req.itens[j].produto_id]
         /\ (\A i \in 1..Len(req.itens) : LinhaOk(req, i)) =>
              /\ v.err = Nil
              /\ v.buscas = [j \in 1..Len(req.itens) |-> req.itens[j].produto_id]

\* a Create has just failed for lack of stock, as a request does here whose
\* first line lacks stock and whose second line names no stored product
C23_Witness ==
  /\ resp.op = "PedidoCreate" /\ resp.err = Erro(ErrEstoque)
  /\ \E req \in PedidoCreateReqs :
       /\ ValidaCreatePedidoRequest(req)
       /\ Len(req.itens) = 2
       /\ LinhaSemEstoque(req, 1)
       /\ ~LinhaResolve(req, 2)
       /\ PedidoServiceCreate(DB, req).err = resp.err
       /\ Len(PrepararItens(DB, req.itens, <<>>, 0).buscas) = 1

\* ---------------------------------------------------------------- C24
\* product ids that no product row has
IdsSemProduto == {3, 65, 55296, 55297}

\* a one-line order of customer 1 for product id
PedidoDeUmaLinha(id) ==
  [cliente_id |-> 1, itens |-> <<[produto_id |-> id, quantidade |-> 1]>>,
   status |-> ""]

\* C24 (as claimed): the product-not-found error of a Create names the id
\* that did not resolve, in decimal, and two different ids that do not
\* resolve give two different errors.
C24_IdNoErro ==
  /\ \A id \in IdsSemProduto :
       LET r == PedidoServiceCreate(DB, PedidoDeUmaLinha(id))
       IN r.err.kind = ErrProdutoNaoEnc /\ r.err.detail = Itoa(id)
  /\ \A id1, id2 \in IdsSemProduto :
       id1 # id2 =>
         PedidoServiceCreate(DB, PedidoDeUmaLinha(id1)).err
           # PedidoServiceCreate(DB, PedidoDeUmaLinha(id2)).err

\* ---------------------------------------------------------------- C27
\* C27: within one line the stock is checked before the active flag.  For
\* every valid request whose first failing line names a product that is
\* inactive and has less stock than the line asks for, Create fails with the
\* insufficient-stock error, not the product-inactive error.
C27_EstoqueAntesDeAtivo ==
  \A req \in PedidoCreateReqs :
    ValidaCreatePedidoRequest(req) =>
      \A i \in 1..Len(req.itens) :
        (PrimeiraFalha(req, i) /\ LinhaInativa(req, i) /\ LinhaSemEstoque(req, i))
          => PedidoServiceCreate(DB, req).err = Erro(ErrEstoque)

\* the one product stored is inactive with a stock of 1, and a Create has
\* just failed for lack of stock
C27_Witness ==
  /\ resp.op = "PedidoCreate" /\ resp.err = Erro(ErrEstoque)
  /\ LiveIds(produtos) # {}
  /\ \A p \in LiveIds(produtos) :
       ~produtos[p].ativo /\ produtos[p].estoque = 1

\* ---------------------------------------------------------------- C28
\* C28: each line is checked against the whole stock of its product.  A
\* valid request, for a customer that resolves, of two lines for one active
\* product, each line asking for no more than the stock and the two together
\* for more than the stock, succeeds and stores the order and both lines.
C28_LinhasIndependentes ==
  \A req \in PedidoCreateReqs :
    (/\ ValidaCreatePedidoRequest(req)
     /\ Live(clientes, req.cliente_id)
     /\ Len(req.itens) = 2
     /\ req.itens[1].produto_id = req.itens[2].produto_id
     /\ LinhaOk(req, 1) /\ LinhaOk(req, 2)
     /\ req.itens[1].quantidade + req.itens[2].quantidade
          > produtos[req.itens[1].produto_id].estoque) =>
      LET r == PedidoServiceCreate(DB, req)
          m == Len(pedido_produtos)
      IN /\ r.err = Nil
         /\ Len(r.db.pedidos) = Len(pedidos) + 1
         /\ Len(r.db.pedido_produtos) = m + 2
         /\ \A i \in 1..2 :
              /\ r.db.pedido_produtos[m + i].pedido_id = r.id
              /\ r.db.pedido_produtos[m + i].quantidade = req.itens[i].quantidade

\* a Create has just stored an order of two lines for one product, and the
\* two quantities add up to more than the product's stock
C28_Witness ==
  /\ resp.op = "PedidoCreate" /\ resp.err = Nil
  /\ Len(pedido_produtos) = 2
  /\ pedido_produtos[1].produto_id = pedido_produtos[2].produto_id
  /\ pedido_produtos[1].pedido_id = pedido_produtos[2].pedido_id
  /\ pedido_produtos[1].quantidade + pedido_produtos[2].quantidade
       > produtos[pedido_produtos[1].produto_id].estoque

\* ---------------------------------------------------------------- C29
\* C29 (as claimed): a Create that returns an error has stored nothing.  For
\* every request, a Create that runs from start to end and fails leaves the
\* orders and the lines as they were; and a Create that fails at the re-fetch
\* that follows the store's create has no order row and no line row of its
\* own in the store.
C29_ErroNadaPersistido ==
  /\ \A req \in ConcPedidoCreateReqs :
       LET r == PedidoServiceCreate(DB, req)
       IN r.err # Nil => NadaPersistido(r)
  /\ \A g \in Goroutines :
       (emCurso[g].pc = "gravado" /\ ErroDaResposta(g) # Nil) =>
         /\ ~Exists(pedidos, emCurso[g].id)
         /\ \A i \in 1..Len(pedido_produtos) :
              pedido_produtos[i].pedido_id # emCurso[g].id

\* --------------------------------------------------------- SpecAtualiza
\* pedidoServiceImpl.UpdateStatus one store call at a time: a goroutine
\* validates and loads the order, and saves it in a later step; between the
\* two any other call may run.  Orders are created and deleted meanwhile.
RespUpdateStatus(err, de) ==
  [op |-> "PedidoUpdateStatus", err |-> err, de |-> de,
   http |-> IF err = Nil THEN StatusOK
            ELSE IF err.kind = ErrPedidoNotFound THEN StatusNotFound
            ELSE StatusInternalServerError]

\* s.validate.Struct(req); s.pedidoRepo.FindByID(ctx, id); pedido.Status = req.Status
UpdateStatusInicio(g, id, req) ==
  /\ emCurso[g].pc = "livre"
  /\ UNCHANGED <<clientes, produtos, pedidos, pedido_produtos>>
  /\ IF ~ValidaUpdatePedidoRequest(req)
     THEN /\ emCurso' = [emCurso EXCEPT ![g] = Fim]
          /\ resp' = RespUpdateStatus([kind |-> ErrValidation,
                                       detail |-> <<"Status">>], "")
     ELSE LET f == PedidoRepoFindByID(DB, id)
          IN IF f.err # Nil
             THEN /\ emCurso' = [emCurso EXCEPT ![g] = Fim]
                  /\ resp' = RespUpdateStatus(f.err, "")
             ELSE /\ emCurso' = [emCurso EXCEPT ![g] =
                                   [pc |-> "salvar",
                                    pedido |-> [f.pedido EXCEPT
                                                  !.status = req.status],
                                    de |-> f.pedido.status]]
                  /\ UNCHANGED resp

\* s.pedidoRepo.Update(ctx, pedido)
UpdateStatusGravar(g) ==
  /\ emCurso[g].pc = "salvar"
  /\ LET r == PedidoRepoUpdate(DB, emCurso[g].pedido)
     IN /\ clientes' = r.db.clientes
        /\ produtos' = r.db.produtos
        /\ pedidos' = r.db.pedidos
        /\ pedido_produtos' = r.db.pedido_produtos
        /\ resp' = RespUpdateStatus(r.err, IF r.err = Nil THEN emCurso[g].de
                                           ELSE "")
  /\ emCurso' = [emCurso EXCEPT ![g] = Fim]

\* one-line orders of customer 1 for product 1
AtualizaPedidoCreateReqs ==
  [cliente_id : {1},
   itens : {<<[produto_id |-> 1, quantidade |-> q]>> : q \in Quantidades},
   status : {""}]

AtualizaPedidoUpdateReqs == UpdatePedidoRequests({"pago", "enviado", ""})

NextAtualiza ==
  \/ ClienteCreate([valido |-> TRUE, duplicado |-> FALSE])
  \/ ProdutoCreate([preco |-> 9999, estoque |-> 2, sku |-> "SKU-A", ativo |-> "nil"])
  \/ \E req \in AtualizaPedidoCreateReqs : PedidoCreate(req)
  \/ \E g \in Goroutines, id \in PedidoIds, req \in AtualizaPedidoUpdateReqs :
       UpdateStatusInicio(g, id, req)
  \/ \E g \in Goroutines : UpdateStatusGravar(g)
  \/ \E id \in PedidoIds : PedidoDelete(id)

SpecAtualiza == Init /\ [][NextAtualiza]_vars

\* ---------------------------------------------------------------- C30
\* C30 (as claimed): when the order an UpdateStatus has loaded is deleted
\* before the UpdateStatus writes, the write fails with "pedido not found"
\* and leaves the database as it is, the order still deleted.
C30_DeleteNaoDesfeito ==
  \A g \in Goroutines :
    (emCurso[g].pc = "salvar" /\ ~Live(pedidos, emCurso[g].pedido.id)) =>
      LET r == PedidoRepoUpdate(DB, emCurso[g].pedido)
      IN r.err = Erro(ErrPedidoNotFound) /\ r.db = DB

====
